---- MODULE Spec2Model ----
(***************************************************************************)
(* A model of attorch/dataset.py: the DataTransform hierarchy, the four    *)
(* dataset adapters (H5Dataset, MultiTensorDataset, NumpyDataset,          *)
(* ListDataset) and the generator to_variable.                             *)
(*                                                                         *)
(* Array contents are symbolic: the element at index i of the array named  *)
(* k is the atom [fld |-> k, idx |-> i], and every library conversion      *)
(* (astype, torch.from_numpy, Variable, a user's <key>_transform) is an    *)
(* uninterpreted function that appends its name to the atom's history      *)
(* `ops`.  Device placement (.cuda() / .cpu()) is the attribute `dev`.     *)
(* Python indices are 0-based; sequences here are 1-based.                 *)
(***************************************************************************)
EXTENDS Integers, Sequences, FiniteSets, TLC

VARIABLES dataset, result, tr, tcall, gen

vars == <<dataset, result, tr, tcall, gen>>

(* ------------------------------ bounds -------------------------------- *)
\* longest array (first dimension) handed to a constructor
MaxLen == 2
\* most fields (data keys, positional arrays, tuple positions)
MaxFields == 2
\* most children of a Chain
MaxChain == 2
\* most initialize calls on one free-standing transform
MaxInits == 2
\* most elements of the iterable handed to to_variable
MaxElems == 2

\* names of the arrays an HDF5 file may hold, numbered
Keys == {1, 2}

Min(a, b) == IF a < b THEN a ELSE b

\* all sequences over S of length 0..n
SeqsUpTo(S, n) == UNION {[1..k -> S] : k \in 0..n}

(* ------------------------------ values -------------------------------- *)
NoOps == <<>>

\* element idx of the array named fld, as stored (a numpy value on the host)
RawVal(fld, idx) == [fld |-> fld, idx |-> idx, ops |-> NoOps, dev |-> "cpu"]

\* an array of n elements named fld
Array(fld, n) == [i \in 1..n |-> RawVal(fld, i - 1)]

Op(name, key) == [name |-> name, key |-> key]

\* the function `lambda x: x`
IdentityFn == Op("identity", 0)

\* the attribute <key>_transform of a dataset
KeyTransform(key) == Op("_transform", key)

\* fn(x) for a bound function fn
ApplyFn(fn, x) == IF fn = IdentityFn THEN x ELSE [x EXCEPT !.ops = Append(@, fn)]

\* torch.from_numpy(x)
from_numpy(x) == [x EXCEPT !.ops = Append(@, Op("from_numpy", 0))]

\* x.astype(np.float32)
astype_float32(x) == [x EXCEPT !.ops = Append(@, Op("astype_float32", 0))]

\* Variable(x, **kwargs); kwargs is "" or "requires_grad"
Variable(x, kwargs) == [x EXCEPT !.ops = Append(@, Op("Variable", IF kwargs = "" THEN 0 ELSE 1))]

\* x.cuda() and x.cpu() on a value
cuda(x) == [x EXCEPT !.dev = "cuda"]

cpu(x) == [x EXCEPT !.dev = "cpu"]

\* v.cuda() and v.cpu() on a whole stored field
field_cuda(v) == [i \in 1..Len(v) |-> cuda(v[i])]

field_cpu(v) == [i \in 1..Len(v) |-> cpu(v[i])]

(* ---------------------------- transforms ------------------------------ *)
\* A transform object.  kind "None" is Python's None, "Lambda" a plain
\* callable `lambda x: x`.  has_transforms tells whether the attribute
\* _transforms exists; inits counts the initialize calls received.
TransformObj(kind, children) ==
    [kind |-> kind, transformees |-> <<>>, funcs |-> <<>>, has_transforms |-> FALSE,
     transforms |-> children, inits |-> 0]

NoneTransform == TransformObj("None", <<>>)

LambdaTransform == TransformObj("Lambda", <<>>)

\* TransformFromFuncs()
TransformFromFuncs_new == TransformObj("TransformFromFuncs", <<>>)

\* ToTensor()
ToTensor_new == TransformObj("ToTensor", <<>>)

\* Chain(*transforms)
Chain_new(transforms) == TransformObj("Chain", transforms)

\* the outcome of a call: status "ok" with the item, or the exception raised
Ok(item) == [status |-> "ok", item |-> item]

Raise(exc) == [status |-> exc, item |-> <<>>]

\* DataTransform.initialize: pass
DataTransform_initialize(t, ds) == [t EXCEPT !.inits = @ + 1]

\* TFF_loop without the identity placeholder for a key that has no attribute
RECURSIVE TFF_loop_no_placeholder(_, _, _)
TFF_loop_no_placeholder(t, ds, i) ==
    IF i > Len(ds.data_keys) THEN t
    ELSE LET d == ds.data_keys[i]
         IN IF d \in ds.attrs
            THEN TFF_loop_no_placeholder([t EXCEPT !.funcs = Append(@, KeyTransform(d)),
                                                   !.transformees = Append(@, d)], ds, i + 1)
            ELSE TFF_loop_no_placeholder(t, ds, i + 1)

\* the loop of TransformFromFuncs.initialize from data key number i on
RECURSIVE TFF_loop(_, _, _)
TFF_loop(t, ds, i) ==
    IF i > Len(ds.data_keys) THEN t
    ELSE LET d == ds.data_keys[i]
         IN IF d \in ds.attrs
            THEN TFF_loop([t EXCEPT !.funcs = Append(@, KeyTransform(d)),
                                    !.transformees = Append(@, d)], ds, i + 1)
            ELSE TFF_loop([t EXCEPT !.funcs = Append(@, IdentityFn)], ds, i + 1)

\* TransformFromFuncs.initialize(dataset)
TransformFromFuncs_initialize(t, ds) ==
    TFF_loop([t EXCEPT !.funcs = <<>>, !.has_transforms = TRUE, !.inits = @ + 1], ds, 1)

\* TransformFromFuncs.__call__ losing the last position of the item
TransformFromFuncs_call_drop_last(t, item) ==
    IF ~t.has_transforms THEN Raise("AttributeError")
    ELSE Ok([i \in 1..(Min(Len(t.funcs), Len(item)) - 1) |-> ApplyFn(t.funcs[i], item[i])])

\* TransformFromFuncs.__call__(item): zip stops at the shorter of the two
TransformFromFuncs_call(t, item) ==
    IF ~t.has_transforms THEN Raise("AttributeError")
    ELSE Ok([i \in 1..Min(Len(t.funcs), Len(item)) |-> ApplyFn(t.funcs[i], item[i])])

\* ToTensor.__call__(item)
ToTensor_call(t, item) == Ok([i \in 1..Len(item) |-> from_numpy(item[i])])

\* initialize of a transform that is no Chain
Leaf_initialize(t, ds) ==
    IF t.kind = "TransformFromFuncs" THEN TransformFromFuncs_initialize(t, ds)
    ELSE DataTransform_initialize(t, ds)

\* __call__ of a transform that is no Chain
Leaf_call(t, item) ==
    CASE t.kind = "TransformFromFuncs" -> TransformFromFuncs_call(t, item)
      [] t.kind = "ToTensor" -> ToTensor_call(t, item)
      [] t.kind = "Lambda" -> Ok(item)
      [] OTHER -> Raise("TypeError")

\* Chain.initialize(dataset): the children from number i on, in order; the
\* second component lists the children initialized, in call order
RECURSIVE Chain_init_loop(_, _, _, _)
Chain_init_loop(children, ds, i, order) ==
    IF i > Len(children) THEN [children |-> children, order |-> order]
    ELSE Chain_init_loop([children EXCEPT ![i] = Leaf_initialize(@, ds)], ds, i + 1,
                         Append(order, [child |-> i, ds |-> ds]))

Chain_initialize(t, ds) ==
    [t EXCEPT !.transforms = Chain_init_loop(t.transforms, ds, 1, <<>>).children,
              !.inits = @ + 1]

\* the initialize calls Chain.initialize makes on its children, in order
Chain_initialize_calls(t, ds) == Chain_init_loop(t.transforms, ds, 1, <<>>).order

\* Chain.__call__ applying the children last to first
RECURSIVE Chain_call_loop_reversed(_, _, _)
Chain_call_loop_reversed(children, i, res) ==
    IF i > Len(children) \/ res.status # "ok" THEN res
    ELSE Chain_call_loop_reversed(children, i + 1,
                                  Leaf_call(children[Len(children) - i + 1], res.item))

\* Chain.__call__(item): the children from number i on; an exception ends it
RECURSIVE Chain_call_loop(_, _, _)
Chain_call_loop(children, i, res) ==
    IF i > Len(children) \/ res.status # "ok" THEN res
    ELSE Chain_call_loop(children, i + 1, Leaf_call(children[i], res.item))

Chain_call(t, item) == Chain_call_loop(t.transforms, 1, Ok(item))

\* transform.initialize(dataset), dispatched on the object's class
Transform_initialize(t, ds) ==
    IF t.kind = "Chain" THEN Chain_initialize(t, ds) ELSE Leaf_initialize(t, ds)

\* transform(item), dispatched on the object's class
Transform_call(t, item) ==
    IF t.kind = "Chain" THEN Chain_call(t, item) ELSE Leaf_call(t, item)

(* ------------------------------ adapters ------------------------------ *)
\* An optional integer: <<>> is None, <<m>> is m.
None == <<>>

Some(m) == <<m>>

EmptyFile == [k \in {} |-> <<>>]

\* The adapter object.  cls "none" means no adapter exists.  fid maps the
\* keys present in the open file to their arrays; attrs is the set of data
\* keys d for which the dataset has an attribute <d>_transform.
NoDataset ==
    [cls |-> "none", fid |-> EmptyFile, len_ |-> None, data_keys |-> <<>>, attrs |-> {},
     data |-> <<>>, transform |-> NoneTransform]

\* the outcome of a constructor: the adapter, or the exception raised
Built(obj) == [status |-> "ok", obj |-> obj]

Failed(exc) == [status |-> exc, obj |-> NoDataset]

\* the key loop of H5Dataset.__init__ from key number i on; m is None or the
\* length of the first key's array
RECURSIVE H5_key_loop(_, _, _, _)
H5_key_loop(fid, data_keys, i, m) ==
    IF i > Len(data_keys) THEN [status |-> "ok", m |-> m]
    ELSE LET key == data_keys[i]
         IN IF key \notin DOMAIN fid THEN [status |-> "AssertionError", m |-> m]
            ELSE IF m = None THEN H5_key_loop(fid, data_keys, i + 1, Some(Len(fid[key])))
            ELSE IF m # Some(Len(fid[key])) THEN [status |-> "AssertionError", m |-> m]
            ELSE H5_key_loop(fid, data_keys, i + 1, m)

\* H5Dataset.__init__(filename, *data_keys, transform=transform) on a file
\* holding fid, for a dataset class with the attributes attrs
H5Dataset_init(file, keys, class_attrs, transform) ==
    LET checked == H5_key_loop(file, keys, 1, None)
        chosen == IF transform.kind = "None"
                  THEN Chain_new(<<TransformFromFuncs_new, ToTensor_new>>)
                  ELSE transform
        self == [cls |-> "H5Dataset", fid |-> file, len_ |-> checked.m,
                 data_keys |-> keys, attrs |-> class_attrs, data |-> <<>>,
                 transform |-> chosen]
    IN IF checked.status # "ok" THEN Failed(checked.status)
       ELSE Built([self EXCEPT !.transform = Transform_initialize(chosen, self)])

\* H5Dataset.__getitem__(item)
H5Dataset_getitem(self, item) ==
    IF \E i \in 1..Len(self.data_keys) : item >= Len(self.fid[self.data_keys[i]])
    THEN Raise("IndexError")
    ELSE Transform_call(self.transform,
                        [i \in 1..Len(self.data_keys) |-> self.fid[self.data_keys[i]][item + 1]])

\* H5Dataset.__len__(): len() of an object whose __len__ returns None raises
H5Dataset_len(self) ==
    IF self.len_ = None THEN [status |-> "TypeError", len |-> 0]
    ELSE [status |-> "ok", len |-> self.len_[1]]

\* the assertion loop stopping one array short
SameFirstDimension_skip_last(lens) == \A i \in 1..(Len(lens) - 1) : lens[i] = lens[1]

\* the assertion loop shared by the positional constructors: every array's
\* first dimension equals that of data[0]
SameFirstDimension(lens) == \A i \in 1..Len(lens) : lens[i] = lens[1]

\* the positional arguments *data: array number k has lens[k] elements
Arrays(lens) == [k \in 1..Len(lens) |-> Array(k, lens[k])]

\* tuple(d[index] for d in self.data)
IndexAll(data, index) ==
    IF \E k \in 1..Len(data) : index >= Len(data[k]) THEN Raise("IndexError")
    ELSE Ok([k \in 1..Len(data) |-> data[k][index + 1]])

\* torch.from_numpy(d.astype(np.float32)) on a whole array
ToFloatTensor(d) == [i \in 1..Len(d) |-> from_numpy(astype_float32(d[i]))]

\* MultiTensorDataset.__init__(*data, transform=transform)
MultiTensorDataset_init(lens, transform) ==
    IF ~SameFirstDimension(lens) THEN Failed("AssertionError")
    ELSE Built([NoDataset EXCEPT !.cls = "MultiTensorDataset",
                                 !.data = [k \in 1..Len(lens) |-> ToFloatTensor(Arrays(lens)[k])],
                                 !.transform = IF transform.kind = "None"
                                               THEN LambdaTransform ELSE transform])

\* MultiTensorDataset.__getitem__(index)
MultiTensorDataset_getitem(self, index) ==
    LET ret == IndexAll(self.data, index)
    IN IF ret.status # "ok" THEN ret ELSE Transform_call(self.transform, ret.item)

\* MultiTensorDataset.__len__(): self.data[0].size(0)
MultiTensorDataset_len(self) ==
    IF Len(self.data) = 0 THEN [status |-> "IndexError", len |-> 0]
    ELSE [status |-> "ok", len |-> Len(self.data[1])]

\* MultiTensorDataset.as_variables(**kwargs): the tuple returned
MultiTensorDataset_as_variables(self, kwargs) ==
    [k \in 1..Len(self.data) |->
        [i \in 1..Len(self.data[k]) |-> Variable(self.data[k][i], kwargs)]]

\* cuda_ moving only the first field
MultiTensorDataset_cuda_first_only(self) ==
    [self EXCEPT !.data = [k \in 1..Len(@) |-> IF k = 1 THEN field_cuda(@[k]) ELSE @[k]]]

\* MultiTensorDataset.cuda_()
MultiTensorDataset_cuda_(self) ==
    [self EXCEPT !.data = [k \in 1..Len(@) |-> field_cuda(@[k])]]

\* MultiTensorDataset.cpu_()
MultiTensorDataset_cpu_(self) ==
    [self EXCEPT !.data = [k \in 1..Len(@) |-> field_cpu(@[k])]]

\* NumpyDataset.__init__(*data)
NumpyDataset_init(lens) ==
    IF ~SameFirstDimension(lens) THEN Failed("AssertionError")
    ELSE Built([NoDataset EXCEPT !.cls = "NumpyDataset", !.data = Arrays(lens)])

\* NumpyDataset.__getitem__(index)
NumpyDataset_getitem(self, index) == IndexAll(self.data, index)

\* NumpyDataset.__len__(): self.data[0].shape(0) calls the shape tuple
NumpyDataset_len(self) ==
    IF Len(self.data) = 0 THEN [status |-> "IndexError", len |-> 0]
    ELSE [status |-> "TypeError", len |-> 0]

\* ListDataset.__init__(*data, transform=transform)
ListDataset_init(lens, transform) ==
    IF ~SameFirstDimension(lens) THEN Failed("AssertionError")
    ELSE Built([NoDataset EXCEPT !.cls = "ListDataset", !.data = Arrays(lens),
                                 !.transform = transform])

\* ListDataset.__getitem__(index)
ListDataset_getitem(self, index) ==
    LET ret == IndexAll(self.data, index)
    IN IF ret.status # "ok" THEN ret
       ELSE IF self.transform.kind # "None" THEN Transform_call(self.transform, ret.item)
       ELSE ret

\* ListDataset.__len__(): len(self.data)
ListDataset_len(self) == [status |-> "ok", len |-> Len(self.data)]

\* self[index], dispatched on the adapter's class
Getitem(self, index) ==
    CASE self.cls = "H5Dataset" -> H5Dataset_getitem(self, index)
      [] self.cls = "MultiTensorDataset" -> MultiTensorDataset_getitem(self, index)
      [] self.cls = "NumpyDataset" -> NumpyDataset_getitem(self, index)
      [] OTHER -> ListDataset_getitem(self, index)

\* len(self), dispatched on the adapter's class
Length(self) ==
    CASE self.cls = "H5Dataset" -> H5Dataset_len(self)
      [] self.cls = "MultiTensorDataset" -> MultiTensorDataset_len(self)
      [] self.cls = "NumpyDataset" -> NumpyDataset_len(self)
      [] OTHER -> ListDataset_len(self)

(* ----------------------------- to_variable ---------------------------- *)
\* An optional mask: filter=None, or filter=mask.
NoFilter == [none |-> TRUE, mask |-> <<>>]

Filter(mask) == [none |-> FALSE, mask |-> mask]

\* The generator object to_variable returns.  iter is the wrapped list, pos
\* the number of its elements consumed, out the tuples yielded so far; given
\* is the filter argument of the call, filter the local variable.
NoGenerator ==
    [active |-> FALSE, done |-> FALSE, iter |-> <<>>, pos |-> 0, given |-> NoFilter,
     filter |-> NoFilter, cuda |-> FALSE, kwargs |-> "", out |-> <<>>]

\* to_variable(iter, cuda, filter, **kwargs): a generator, its body not yet run
to_variable(iter, cuda_flag, filter, kwargs) ==
    [active |-> TRUE, done |-> FALSE, iter |-> iter, pos |-> 0, given |-> filter,
     filter |-> filter, cuda |-> cuda_flag, kwargs |-> kwargs, out |-> <<>>]

\* filter = len(elem) * (True,) when filter is None
InferFilter(filter, elem) ==
    IF filter.none THEN Filter([j \in 1..Len(elem) |-> TRUE]) ELSE filter

\* the conversion taking the branch without .cuda() whatever the flag
Convert_never_cuda(mask, elem, cuda_flag, kwargs) ==
    [j \in 1..Min(Len(mask), Len(elem)) |->
        IF mask[j] THEN Variable(elem[j], kwargs) ELSE elem[j]]

\* tuple(Variable(e.cuda(), **kwargs) if f else e for f, e in zip(filter, elem)),
\* or the same without .cuda()
Convert(mask, elem, cuda_flag, kwargs) ==
    [j \in 1..Min(Len(mask), Len(elem)) |->
        IF mask[j]
        THEN (IF cuda_flag THEN Variable(cuda(elem[j]), kwargs) ELSE Variable(elem[j], kwargs))
        ELSE elem[j]]

\* the loop round not keeping the inferred filter for the next element
to_variable_next_reinfer(g) ==
    LET elem == g.iter[g.pos + 1]
        filter == InferFilter(g.filter, elem)
    IN [g EXCEPT !.pos = @ + 1,
                 !.out = Append(@, Convert(filter.mask, elem, g.cuda, g.kwargs))]

\* one round of the for loop of to_variable, up to its yield
to_variable_next(g) ==
    LET elem == g.iter[g.pos + 1]
        filter == InferFilter(g.filter, elem)
    IN [g EXCEPT !.pos = @ + 1, !.filter = filter,
                 !.out = Append(@, Convert(filter.mask, elem, g.cuda, g.kwargs))]

(* ------------------------------ inputs -------------------------------- *)
\* first dimensions of the arrays handed to a positional constructor
LenLists == SeqsUpTo(0..MaxLen, MaxFields)

\* contents of an HDF5 file: some of the keys, each with an array
Files ==
    UNION {[present -> 0..MaxLen] : present \in SUBSET Keys}

OpenFile(file) == [k \in DOMAIN file |-> Array(k, file[k])]

KeyLists == SeqsUpTo(Keys, MaxFields)

\* transforms that are no Chain, freshly constructed
Leaves == {TransformFromFuncs_new, ToTensor_new}

\* the transform= argument of an adapter's constructor
TransformArgs ==
    {NoneTransform} \cup Leaves \cup {Chain_new(<<ToTensor_new, TransformFromFuncs_new>>)}

\* freshly constructed transforms
NewTransforms == Leaves \cup {Chain_new(c) : c \in SeqsUpTo(Leaves, MaxChain)}

\* what initialize reads of a dataset: its data keys and which of them have
\* a <key>_transform attribute
DatasetViews ==
    UNION {[data_keys : {kl}, attrs : SUBSET {kl[i] : i \in 1..Len(kl)}] : kl \in KeyLists}

NoView == [data_keys |-> <<>>, attrs |-> {}]

\* an item tuple of arity a, as read from the arrays at index 0
RawItem(a) == [j \in 1..a |-> RawVal(j, 0)]

Indices == 0..(MaxLen + 1)

KwargsSet == {"", "requires_grad"}

Masks == SeqsUpTo(BOOLEAN, MaxFields)

\* the list handed to to_variable: element p is a tuple of arities[p] tensors
Elements(arities) == [p \in 1..Len(arities) |-> Array(p, arities[p])]

ArityLists == SeqsUpTo(0..MaxFields, MaxElems)

(* ------------------------------ results ------------------------------- *)
NoArgs == [cls |-> "none", file |-> EmptyFile, data_keys |-> <<>>, lens |-> <<>>]

\* what the last operation on the adapter was and what came of it
NoResult ==
    [op |-> "none", status |-> "ok", args |-> NoArgs, index |-> 0, item |-> <<>>,
     len |-> 0, fields |-> <<>>]

NoCall == [op |-> "none", ds |-> NoView, arg |-> <<>>, status |-> "ok", item |-> <<>>,
           order |-> <<>>]

(* ------------------------------ actions ------------------------------- *)
Init ==
    /\ dataset = NoDataset
    /\ result = NoResult
    /\ tr = NoneTransform
    /\ tcall = NoCall
    /\ gen = NoGenerator

\* the model follows one adapter from its construction on
Constructed(built, args) ==
    /\ result.op = "none"
    /\ dataset' = built.obj
    /\ result' = [NoResult EXCEPT !.op = "__init__", !.status = built.status, !.args = args]
    /\ UNCHANGED <<tr, tcall, gen>>

ConstructH5 ==
    \E file \in Files, data_keys \in KeyLists, attrs \in SUBSET Keys, t \in TransformArgs :
        Constructed(H5Dataset_init(OpenFile(file), data_keys, attrs, t),
                    [NoArgs EXCEPT !.cls = "H5Dataset", !.file = OpenFile(file),
                                   !.data_keys = data_keys])

ConstructMultiTensor ==
    \E lens \in LenLists, t \in TransformArgs :
        Constructed(MultiTensorDataset_init(lens, t),
                    [NoArgs EXCEPT !.cls = "MultiTensorDataset", !.lens = lens])

ConstructNumpy ==
    \E lens \in LenLists :
        Constructed(NumpyDataset_init(lens),
                    [NoArgs EXCEPT !.cls = "NumpyDataset", !.lens = lens])

ConstructList ==
    \E lens \in LenLists, t \in TransformArgs :
        Constructed(ListDataset_init(lens, t),
                    [NoArgs EXCEPT !.cls = "ListDataset", !.lens = lens])

GetitemCall ==
    /\ dataset.cls # "none"
    /\ \E index \in Indices :
        LET r == Getitem(dataset, index)
        IN result' = [NoResult EXCEPT !.op = "__getitem__", !.status = r.status,
                                      !.index = index, !.item = r.item]
    /\ UNCHANGED <<dataset, tr, tcall, gen>>

LenCall ==
    /\ dataset.cls # "none"
    /\ LET r == Length(dataset)
       IN result' = [NoResult EXCEPT !.op = "__len__", !.status = r.status, !.len = r.len]
    /\ UNCHANGED <<dataset, tr, tcall, gen>>

AsVariablesCall ==
    /\ dataset.cls = "MultiTensorDataset"
    /\ \E kwargs \in KwargsSet :
        result' = [NoResult EXCEPT !.op = "as_variables",
                                   !.fields = MultiTensorDataset_as_variables(dataset, kwargs)]
    /\ UNCHANGED <<dataset, tr, tcall, gen>>

CudaCall ==
    /\ dataset.cls = "MultiTensorDataset"
    /\ dataset' = MultiTensorDataset_cuda_(dataset)
    /\ result' = [NoResult EXCEPT !.op = "cuda_"]
    /\ UNCHANGED <<tr, tcall, gen>>

CpuCall ==
    /\ dataset.cls = "MultiTensorDataset"
    /\ dataset' = MultiTensorDataset_cpu_(dataset)
    /\ result' = [NoResult EXCEPT !.op = "cpu_"]
    /\ UNCHANGED <<tr, tcall, gen>>

Next ==
    \/ ConstructList
    \/ ConstructNumpy
    \/ ConstructMultiTensor
    \/ ConstructH5
    \/ GetitemCall
    \/ LenCall
    \/ AsVariablesCall
    \/ CudaCall
    \/ CpuCall

Spec == Init /\ [][Next]_vars

\* A free-standing transform: constructed, initialized against datasets, applied.
NewTransform ==
    /\ tr.kind = "None"
    /\ \E t \in NewTransforms : tr' = t
    /\ tcall' = [NoCall EXCEPT !.op = "__init__"]
    /\ UNCHANGED <<dataset, result, gen>>

InitializeCall ==
    /\ tr.kind # "None"
    /\ tr.inits < MaxInits
    /\ \E ds \in DatasetViews :
        /\ tr' = Transform_initialize(tr, ds)
        /\ tcall' = [NoCall EXCEPT !.op = "initialize", !.ds = ds,
                        !.order = IF tr.kind = "Chain" THEN Chain_initialize_calls(tr, ds)
                                  ELSE <<>>]
    /\ UNCHANGED <<dataset, result, gen>>

ApplyCall ==
    /\ tr.kind # "None"
    /\ \E a \in 0..MaxFields :
        LET r == Transform_call(tr, RawItem(a))
        IN tcall' = [tcall EXCEPT !.op = "__call__", !.arg = RawItem(a),
                                  !.status = r.status, !.item = r.item, !.order = <<>>]
    /\ UNCHANGED <<dataset, result, tr, gen>>

NextTransform ==
    \/ NewTransform
    \/ InitializeCall
    \/ ApplyCall

SpecTransform == Init /\ [][NextTransform]_vars

\* The generator of to_variable: created, then advanced one element at a time.
ToVariableCall ==
    /\ ~gen.active
    /\ \E arities \in ArityLists, cuda_flag \in BOOLEAN, kwargs \in KwargsSet,
          filter \in {NoFilter} \cup {Filter(m) : m \in Masks} :
        gen' = to_variable(Elements(arities), cuda_flag, filter, kwargs)
    /\ UNCHANGED <<dataset, result, tr, tcall>>

ToVariableNext ==
    /\ gen.active /\ ~gen.done
    /\ gen.pos < Len(gen.iter)
    /\ gen' = to_variable_next(gen)
    /\ UNCHANGED <<dataset, result, tr, tcall>>

ToVariableStop ==
    /\ gen.active /\ ~gen.done
    /\ gen.pos = Len(gen.iter)
    /\ gen' = [gen EXCEPT !.done = TRUE]
    /\ UNCHANGED <<dataset, result, tr, tcall>>

NextToVariable ==
    \/ ToVariableCall
    \/ ToVariableNext
    \/ ToVariableStop

SpecToVariable == Init /\ [][NextToVariable]_vars

(* ------------------------------- claims ------------------------------- *)
\* the adapter classes whose constructor takes transform=
TakesTransform == {"H5Dataset", "MultiTensorDataset", "ListDataset"}

\* the classes of transform that have an initialize method
DataTransforms == {"TransformFromFuncs", "ToTensor", "Chain"}

\* first dimensions of the fields a constructor call names: the arrays
\* passed, or the arrays of the file that the data keys name
FieldLens(a) ==
    IF a.cls = "H5Dataset"
    THEN LET present == SelectSeq(a.data_keys, LAMBDA k : k \in DOMAIN a.file)
         IN [i \in 1..Len(present) |-> Len(a.file[present[i]])]
    ELSE a.lens

AllFieldsExist(a) ==
    a.cls = "H5Dataset" => \A i \in 1..Len(a.data_keys) : a.data_keys[i] \in DOMAIN a.file

Mismatched(lens) == \E i \in 1..Len(lens) : lens[i] # lens[1]

\* C1: a constructor given fields of which one differs in first-dimension
\* length from the first fails with AssertionError and leaves no adapter;
\* given fields that all exist and have one length it returns the adapter.
C1_MismatchFails ==
    result.op = "__init__" =>
        LET a == result.args
        IN /\ Mismatched(FieldLens(a)) =>
                (result.status = "AssertionError" /\ dataset.cls = "none")
           /\ (AllFieldsExist(a) /\ ~Mismatched(FieldLens(a))) =>
                (result.status = "ok" /\ dataset.cls = a.cls)

C1_Witness ==
    /\ result.op = "__init__"
    /\ result.args.cls = "H5Dataset"
    /\ AllFieldsExist(result.args)
    /\ Len(result.args.data_keys) = 2
    /\ Mismatched(FieldLens(result.args))
    /\ result.status = "AssertionError"

\* C2: on every constructed adapter (over one or more fields, as the data
\* model has it) self[len(self)] raises an out-of-range error and self[i]
\* succeeds for every 0 <= i < len(self).
C2_ItemAtLengthFails ==
    (dataset.cls # "none" /\ Len(dataset.data) + Len(dataset.data_keys) >= 1) =>
        LET n == Length(dataset)
        IN /\ n.status = "ok"
           /\ Getitem(dataset, n.len).status = "IndexError"
           /\ \A i \in 0..(n.len - 1) : Getitem(dataset, i).status = "ok"

\* C3: an adapter constructed with a transform has called that transform's
\* initialize exactly once, so no __getitem__ applies an uninitialized one.
C3_InitializedOnce ==
    (dataset.cls \in TakesTransform /\ dataset.transform.kind \in DataTransforms) =>
        /\ dataset.transform.inits = 1
        /\ (result.op = "__getitem__" => result.status # "AttributeError")

\* C4: on an H5Dataset whose transform is a TransformFromFuncs, self[i] has
\* one position per data key; the position of a key d with a d_transform
\* attribute is d_transform(fid[d][i]), every other position is fid[d][i].
C4_FieldTransforms ==
    (/\ dataset.cls = "H5Dataset"
     /\ dataset.transform.kind = "TransformFromFuncs"
     /\ result.op = "__getitem__"
     /\ 0 <= result.index
     /\ dataset.len_ # None
     /\ result.index < dataset.len_[1]) =>
        /\ result.status = "ok"
        /\ Len(result.item) = Len(dataset.data_keys)
        /\ \A j \in 1..Len(dataset.data_keys) :
            LET d == dataset.data_keys[j]
                raw == RawVal(d, result.index)
            IN result.item[j] = IF d \in dataset.attrs
                                THEN [raw EXCEPT !.ops = <<KeyTransform(d)>>]
                                ELSE raw

C4_Witness ==
    /\ dataset.cls = "H5Dataset"
    /\ dataset.transform.kind = "TransformFromFuncs"
    /\ result.op = "__getitem__"
    /\ result.status = "ok"
    /\ result.index = 1
    /\ dataset.data_keys = <<2, 1>>
    /\ dataset.attrs = {1}

\* no data key of ds has a <key>_transform attribute
NoCustomFields(ds) == \A i \in 1..Len(ds.data_keys) : ds.data_keys[i] \notin ds.attrs

IsDefaultChain(t) ==
    /\ t.kind = "Chain"
    /\ Len(t.transforms) = 2
    /\ t.transforms[1].kind = "TransformFromFuncs"
    /\ t.transforms[2].kind = "ToTensor"

\* C5: Chain(TransformFromFuncs, ToTensor) initialized against a dataset
\* without <field>_transform attributes maps an item with one position per
\* data key to what ToTensor alone maps it to.
C5_ChainEqualsToTensor ==
    (/\ IsDefaultChain(tr)
     /\ tr.inits >= 1
     /\ NoCustomFields(tcall.ds)
     /\ tcall.op = "__call__"
     /\ Len(tcall.arg) = Len(tcall.ds.data_keys)) =>
        [status |-> tcall.status, item |-> tcall.item] = ToTensor_call(ToTensor_new, tcall.arg)

C5_Witness ==
    /\ IsDefaultChain(tr)
    /\ tr.inits = 1
    /\ tcall.ds.data_keys = <<1, 2>>
    /\ tcall.ds.attrs = {}
    /\ tcall.op = "__call__"
    /\ Len(tcall.arg) = 2
    /\ tcall.status = "ok"

\* the value a true mask entry puts in place of e
Wrapped(e, cuda_flag, kwargs) ==
    [e EXCEPT !.ops = Append(@, Op("Variable", IF kwargs = "" THEN 0 ELSE 1)),
              !.dev = IF cuda_flag THEN "cuda" ELSE @]

\* C6: with a mask as long as every element, to_variable yields one tuple per
\* element consumed, in order; a position whose mask entry is true holds the
\* wrapped input (on the accelerator only if cuda), any other the input.
C6_MaskedConversion ==
    (/\ gen.active
     /\ ~gen.given.none
     /\ \A k \in 1..gen.pos : Len(gen.iter[k]) = Len(gen.given.mask)) =>
        /\ Len(gen.out) = gen.pos
        /\ \A k \in 1..gen.pos :
            /\ Len(gen.out[k]) = Len(gen.iter[k])
            /\ \A j \in 1..Len(gen.iter[k]) :
                gen.out[k][j] = IF gen.given.mask[j]
                                THEN Wrapped(gen.iter[k][j], gen.cuda, gen.kwargs)
                                ELSE gen.iter[k][j]

C6_Witness ==
    /\ gen.active
    /\ gen.given = Filter(<<TRUE, FALSE>>)
    /\ ~gen.cuda
    /\ gen.pos = 2
    /\ Len(gen.iter[1]) = 2
    /\ Len(gen.iter[2]) = 2
    /\ gen.out[2][1].ops # <<>>
    /\ gen.out[2][2] = gen.iter[2][2]

\* d2 is d with every stored element placed on dev and nothing else changed
MovedTo(d, d2, dev) ==
    /\ d2 = [d EXCEPT !.data = d2.data]
    /\ Len(d2.data) = Len(d.data)
    /\ \A k \in 1..Len(d.data) :
        /\ Len(d2.data[k]) = Len(d.data[k])
        /\ \A i \in 1..Len(d.data[k]) : d2.data[k][i] = [d.data[k][i] EXCEPT !.dev = dev]

\* C7: on a MultiTensorDataset, as_variables, __getitem__ and __len__ leave
\* the adapter as it was; cuda_ and cpu_ change nothing but the placement of
\* the stored fields, which all end on the accelerator or all on the host.
C7_DeviceFrame ==
    [][/\ result'.op \in {"as_variables", "__getitem__", "__len__"} => dataset' = dataset
       /\ result'.op = "cuda_" => MovedTo(dataset, dataset', "cuda")
       /\ result'.op = "cpu_" => MovedTo(dataset, dataset', "cpu")]_vars

C7_Witness ==
    /\ dataset.cls = "MultiTensorDataset"
    /\ result.op = "cuda_"
    /\ Len(dataset.data) = 2
    /\ Len(dataset.data[2]) = 2
    /\ dataset.data[2][2].dev = "cuda"

\* tn(...t2(t1(item))...) for the first n children, an exception passing through
RECURSIVE Composed(_, _, _)
Composed(children, n, item) ==
    IF n = 0 THEN Ok(item)
    ELSE LET inner == Composed(children, n - 1, item)
         IN IF inner.status # "ok" THEN inner ELSE Leaf_call(children[n], inner.item)

\* C8: Chain.initialize calls initialize on each child once, in the order of
\* the children, with the dataset it was given; Chain.__call__ returns
\* tn(...t1(item)...), and the item itself when the Chain has no children.
C8_ChainOrder ==
    tr.kind = "Chain" =>
        /\ \A i \in 1..Len(tr.transforms) : tr.transforms[i].inits = tr.inits
        /\ tcall.op = "initialize" =>
            tcall.order = [i \in 1..Len(tr.transforms) |-> [child |-> i, ds |-> tcall.ds]]
        /\ tcall.op = "__call__" =>
            /\ [status |-> tcall.status, item |-> tcall.item]
                 = Composed(tr.transforms, Len(tr.transforms), tcall.arg)
            /\ Len(tr.transforms) = 0 => (tcall.status = "ok" /\ tcall.item = tcall.arg)

C8_Witness ==
    /\ tr.kind = "Chain"
    /\ Len(tr.transforms) = 2
    /\ tr.transforms[1].kind = "ToTensor"
    /\ tr.transforms[2].kind = "TransformFromFuncs"
    /\ tr.inits = 1
    /\ tcall.ds.data_keys = <<1, 2>>
    /\ tcall.ds.attrs = {2}
    /\ tcall.op = "__call__"
    /\ tcall.status = "ok"
    /\ Len(tcall.item) = 2

AllTrue(n) == [j \in 1..n |-> TRUE]

\* C9 as claimed: without a mask, the mask is all-true with the first
\* element's arity from then on, and an element of another arity yields no
\* output tuple (an index error ends the generator instead).
C9_ArityErrorClaim ==
    (gen.active /\ gen.given.none /\ gen.pos >= 1) =>
        /\ gen.filter = Filter(AllTrue(Len(gen.iter[1])))
        /\ \A k \in 1..gen.pos : Len(gen.iter[k]) = Len(gen.iter[1])

\* C9 as amended: without a mask, the mask is all-true with the first
\* element's arity from then on; every element consumed yields a tuple, cut
\* to the shorter of the mask and the element, every position of it wrapped.
C9_MaskInferredOnce ==
    (gen.active /\ gen.given.none /\ gen.pos >= 1) =>
        /\ gen.filter = Filter(AllTrue(Len(gen.iter[1])))
        /\ Len(gen.out) = gen.pos
        /\ \A k \in 1..gen.pos :
            /\ Len(gen.out[k]) = Min(Len(gen.iter[1]), Len(gen.iter[k]))
            /\ \A j \in 1..Len(gen.out[k]) :
                gen.out[k][j] = Wrapped(gen.iter[k][j], gen.cuda, gen.kwargs)

C9_Witness ==
    /\ gen.active
    /\ gen.given.none
    /\ gen.pos = 2
    /\ Len(gen.iter[1]) = 1
    /\ Len(gen.iter[2]) = 2
    /\ Len(gen.out[2]) = 1

\* number of positions of s holding x
Count(s, x) == Cardinality({i \in 1..Len(s) : s[i] = x})

\* C10: after any number of initialize calls, transformees lists, in order
\* and no more often than they occur there, the data keys of the dataset
\* bound last that have a <key>_transform attribute, and _transforms has one
\* entry per data key of that dataset.
C10_TransformeesOfLastDataset ==
    (tr.kind = "TransformFromFuncs" /\ tr.inits >= 1 /\ tcall.op = "initialize") =>
        /\ tr.transformees = SelectSeq(tcall.ds.data_keys, LAMBDA k : k \in tcall.ds.attrs)
        /\ \A k \in Keys : Count(tr.transformees, k) <= Count(tcall.ds.data_keys, k)
        /\ Len(tr.funcs) = Len(tcall.ds.data_keys)

====
